---- MODULE Spec2Model ----
(***************************************************************************)
(* A model of src/models/preprocess.py: the reshape-and-summarize pipeline *)
(* over the World Bank indicator table.  A table is a record of column     *)
(* labels and rows; each stage function of the source is one action that   *)
(* builds its result the way the pandas calls of its body do.              *)
(*                                                                         *)
(* Numbers are exact: a float is a fraction n/d in lowest terms, NaN is    *)
(* 0/0 and +inf, -inf are 1/0, -1/0.  Rounding of the machine floats is    *)
(* not modelled.                                                          *)
(***************************************************************************)
EXTENDS Integers, Sequences, FiniteSets, TLC

\* The largest number of value cells (groups x year columns) of an input table.
MaxCells == 6

----------------------------------------------------------------------------
(* Cells *)

Str(s) == [k |-> "s", s |-> s]
Year(y) == [k |-> "y", y |-> y]

Abs(i) == IF i < 0 THEN -i ELSE i
Sign(i) == IF i < 0 THEN -1 ELSE IF i = 0 THEN 0 ELSE 1

RECURSIVE Gcd(_, _)
Gcd(a, b) == IF b = 0 THEN a ELSE Gcd(b, a % b)

\* the float n/d: lowest terms, positive denominator; x/0 is NaN or an infinity
Q(n, d) ==
  IF d = 0 THEN [k |-> "q", n |-> Sign(n), d |-> 0]
  ELSE LET g == Gcd(Abs(n), Abs(d))
           s == Sign(d)
       IN [k |-> "q", n |-> (s * n) \div g, d |-> (s * d) \div g]

NaN == Q(0, 0)
Num(i) == Q(i, 1)

\* pandas isnull / notnull of one cell
IsNull(c) == c.k = "q" /\ c.d = 0 /\ c.n = 0
NotNull(c) == ~IsNull(c)
\* numpy isfinite of a float
IsFinite(c) == c.k = "q" /\ c.d # 0
IsExact(c) == c.k = "q"

\* float addition
QAdd(a, b) ==
  IF IsNull(a) \/ IsNull(b) THEN NaN
  ELSE IF a.d = 0 /\ b.d = 0 THEN (IF a.n = b.n THEN a ELSE NaN)
  ELSE IF a.d = 0 THEN a
  ELSE IF b.d = 0 THEN b
  ELSE Q(a.n * b.d + b.n * a.d, a.d * b.d)

QSub(a, b) == QAdd(a, [b EXCEPT !.n = -b.n])

\* float multiplied by an integer fraction p/q, q > 0
QScale(a, p, q) ==
  IF IsNull(a) THEN NaN
  ELSE IF a.d = 0 THEN Q(a.n * Sign(p), 0)
  ELSE Q(a.n * p, a.d * q)

\* numpy float division a / b: 0/0 is nan, x/0 is a signed infinity
QDiv(a, b) ==
  IF IsNull(a) \/ IsNull(b) THEN NaN
  ELSE IF a.d = 0 /\ b.d = 0 THEN NaN
  ELSE IF a.d = 0 THEN Q(a.n * (IF b.n < 0 THEN -1 ELSE 1), 0)
  ELSE IF b.d = 0 THEN Num(0)
  ELSE Q(a.n * b.d, a.d * b.n)

RECURSIVE IPow(_, _)
IPow(b, e) == IF e = 0 THEN 1 ELSE b * IPow(b, e - 1)

\* the integer r with r^e = m, or -1 when m is no perfect e-th power (m >= 0, e >= 1)
IRoot(m, e) ==
  LET S == {r \in 0..m : IPow(r, e) = m}
  IN IF S = {} THEN -1 ELSE CHOOSE r \in S : TRUE

\* the float base ** (1 / e) - 1 of calculate_growth_rate, e >= 1.  A root that is
\* no fraction is kept as the exact term [k |-> "g"]: (n/d)^(1/r) - 1.
GrowthOf(base, e) ==
  IF IsNull(base) THEN NaN
  ELSE IF base.d = 0
       THEN (IF base.n > 0 \/ e > 1 THEN Q(1, 0) ELSE Q(-1, 0))
  ELSE IF e = 1 THEN QSub(base, Num(1))
  ELSE IF base.n < 0 THEN NaN
  ELSE LET rn == IRoot(base.n, e)
           rd == IRoot(base.d, e)
       IN IF rn >= 0 /\ rd >= 0 THEN QSub(Q(rn, rd), Num(1))
          ELSE [k |-> "g", n |-> base.n, d |-> base.d, r |-> e]

\* the cells of s that are not null, in order
RECURSIVE DropNull(_)
DropNull(s) ==
  IF s = <<>> THEN <<>>
  ELSE IF IsNull(Head(s)) THEN DropNull(Tail(s))
       ELSE <<Head(s)>> \o DropNull(Tail(s))

RECURSIVE QSum(_)
QSum(s) == IF s = <<>> THEN Num(0) ELSE QAdd(Head(s), QSum(Tail(s)))

\* how often cell c occurs in s
RECURSIVE Count(_, _)
Count(c, s) ==
  IF s = <<>> THEN 0
  ELSE (IF Head(s) = c THEN 1 ELSE 0) + Count(c, Tail(s))

\* a mean that does not skip nulls: null as soon as one cell is
MeanKeepingNulls(s) ==
  IF s = <<>> \/ \E i \in 1..Len(s) : IsNull(s[i]) THEN NaN
  ELSE IF \A i \in 1..Len(s) : IsExact(s[i]) THEN QScale(QSum(s), 1, Len(s))
  ELSE [k |-> "m", of |-> [c \in {s[i] : i \in 1..Len(s)} |-> Count(c, s)]]

\* pandas mean with skipna, of a sequence of number cells: the sum of the cells that
\* are not null over their number, NaN when there is none.  A mean over inexact
\* growth terms is kept as the exact term [k |-> "m"]: the bag of its summands.
Mean(s) ==
  LET p == DropNull(s)
  IN IF p = <<>> THEN NaN
     ELSE IF \A i \in 1..Len(p) : IsExact(p[i]) THEN QScale(QSum(p), 1, Len(p))
     ELSE [k |-> "m", of |-> [c \in {p[i] : i \in 1..Len(p)} |-> Count(c, p)]]

----------------------------------------------------------------------------
(* Column labels are sequences of characters, so that format_columns and the *)
(* parse of a year label are computed character by character.               *)

RawCountryName ==
  <<"C", "o", "u", "n", "t", "r", "y", " ", "N", "a", "m", "e">>
RawCountryCode ==
  <<"C", "o", "u", "n", "t", "r", "y", " ", "C", "o", "d", "e">>
RawIndicatorName ==
  <<"I", "n", "d", "i", "c", "a", "t", "o", "r", " ", "N", "a", "m", "e">>
RawIndicatorCode ==
  <<"I", "n", "d", "i", "c", "a", "t", "o", "r", " ", "C", "o", "d", "e">>
RawUnnamed ==
  <<"U", "n", "n", "a", "m", "e", "d", ":", " ", "6", "3">>
COUNTRY_NAME ==
  <<"C", "O", "U", "N", "T", "R", "Y", "_", "N", "A", "M", "E">>
INDICATOR_NAME ==
  <<"I", "N", "D", "I", "C", "A", "T", "O", "R", "_", "N", "A", "M", "E">>
INDICATOR_CODE ==
  <<"I", "N", "D", "I", "C", "A", "T", "O", "R", "_", "C", "O", "D", "E">>
COUNTRY_CODE ==
  <<"C", "O", "U", "N", "T", "R", "Y", "_", "C", "O", "D", "E">>
UNNAMED_63 ==
  <<"U", "N", "N", "A", "M", "E", "D", ":", "_", "6", "3">>
YEAR ==
  <<"Y", "E", "A", "R">>
VALUE ==
  <<"V", "A", "L", "U", "E">>
CURRENT_YEAR ==
  <<"C", "U", "R", "R", "E", "N", "T", "_", "Y", "E", "A", "R">>
CURRENT_VALUE ==
  <<"C", "U", "R", "R", "E", "N", "T", "_", "V", "A", "L", "U", "E">>
AVERAGE_VALUE ==
  <<"A", "V", "E", "R", "A", "G", "E", "_", "V", "A", "L", "U", "E">>
GROWTH_RATE ==
  <<"G", "R", "O", "W", "T", "H", "_", "R", "A", "T", "E">>
LowerCase ==
  <<"a", "b", "c", "d", "e", "f", "g", "h", "i", "j", "k", "l", "m", "n", "o", "p", "q", "r", "s", "t", "u", "v", "w", "x", "y", "z">>
UpperCase ==
  <<"A", "B", "C", "D", "E", "F", "G", "H", "I", "J", "K", "L", "M", "N", "O", "P", "Q", "R", "S", "T", "U", "V", "W", "X", "Y", "Z">>
DigitChars ==
  <<"0", "1", "2", "3", "4", "5", "6", "7", "8", "9">>

\* the indicator names the module lists
indicators == {
  "Air transport, passengers carried",
  "Cause of death, by communicable diseases and maternal, prenatal and nutrition conditions (% of total)",
  "Cause of death, by non-communicable diseases (% of total)",
  "Current health expenditure per capita, PPP (current international $)",
  "Death rate, crude (per 1,000 people)",
  "Diabetes prevalence (% of population ages 20 to 79)",
  "GDP per capita, PPP (current international $)",
  "Hospital beds (per 1,000 people)",
  "Incidence of tuberculosis (per 100,000 people)",
  "International migrant stock, total",
  "International tourism, number of arrivals",
  "International tourism, number of departures",
  "Labor force participation rate, total (% of total population ages 15+) (modeled ILO estimate)",
  "Life expectancy at birth, total (years)",
  "Mortality from CVD, cancer, diabetes or CRD between exact ages 30 and 70 (%)",
  "Mortality rate attributed to household and ambient air pollution, age-standardized (per 100,000 population)",
  "Mortality rate attributed to unsafe water, unsafe sanitation and lack of hygiene (per 100,000 population)",
  "Mortality rate, adult, female (per 1,000 female adults)",
  "Mortality rate, adult, male (per 1,000 male adults)",
  "Number of people spending more than 10% of household consumption or income on out-of-pocket health care expenditure",
  "Number of people spending more than 25% of household consumption or income on out-of-pocket health care expenditure",
  "Nurses and midwives (per 1,000 people)",
  "Out-of-pocket expenditure (% of current health expenditure)",
  "PM2.5 air pollution, population exposed to levels exceeding WHO guideline value (% of total)",
  "People using at least basic sanitation services (% of population)",
  "People using safely managed sanitation services (% of population)",
  "People with basic handwashing facilities including soap and water (% of population)",
  "Physicians (per 1,000 people)",
  "Population ages 15-64 (% of total)",
  "Population ages 65 and above (% of total)",
  "Population density (people per sq. km of land area)",
  "Population in the largest city (% of urban population)",
  "Population in urban agglomerations of more than 1 million (% of total population)",
  "Population, total",
  "Poverty headcount ratio at $3.20 a day (2011 PPP) (% of population)",
  "Prevalence of HIV, total (% of population ages 15-49)",
  "Smoking prevalence, females (% of adults)",
  "Smoking prevalence, males (% of adults)",
  "Survival to age 65, female (% of cohort)",
  "Survival to age 65, male (% of cohort)",
  "Trade (% of GDP)",
  "Tuberculosis case detection rate (%, all forms)",
  "Tuberculosis treatment success rate (% of new cases)",
  "Urban population (% of total)"
}

\* c.split("/")[0]
RECURSIVE BeforeSlash(_)
BeforeSlash(s) ==
  IF s = <<>> \/ Head(s) = "/" THEN <<>>
  ELSE <<Head(s)>> \o BeforeSlash(Tail(s))

\* c.replace(" ", "_")
SpacesToUnderscores(s) == [i \in 1..Len(s) |-> IF s[i] = " " THEN "_" ELSE s[i]]

ToUpper(ch) ==
  IF \E i \in 1..Len(LowerCase) : LowerCase[i] = ch
  THEN UpperCase[CHOOSE i \in 1..Len(LowerCase) : LowerCase[i] = ch]
  ELSE ch

\* c.upper()
Upper(s) == [i \in 1..Len(s) |-> ToUpper(s[i])]

FormatLabel(c) == Upper(SpacesToUnderscores(BeforeSlash(c)))

DigitOf(ch) == (CHOOSE i \in 1..10 : DigitChars[i] = ch) - 1

\* a label numpy reads as a calendar year
IsYearLabel(s) ==
  /\ Len(s) = 4
  /\ \A i \in 1..4 : \E j \in 1..10 : DigitChars[j] = s[i]

RECURSIVE DigitsValue(_)
DigitsValue(s) ==
  IF s = <<>> THEN 0
  ELSE 10 * DigitsValue(SubSeq(s, 1, Len(s) - 1)) + DigitOf(s[Len(s)])

\* the order of Python's string comparison on the strings of the model
StrOrder ==
  <<"Atlantis", "GDP (current US$)", "Italy", "Population, total", "Spain",
    "US", "United States">>

Rank(s) == CHOOSE i \in 1..Len(StrOrder) : StrOrder[i] = s

\* lexicographic order of two (country, indicator) keys
KeyLess(a, b) ==
  \/ Rank(a[1]) < Rank(b[1])
  \/ a[1] = b[1] /\ Rank(a[2]) < Rank(b[2])

\* a finite set of (country, indicator) keys, ascending
RECURSIVE SortKeys(_)
SortKeys(S) ==
  IF S = {} THEN <<>>
  ELSE LET m == CHOOSE x \in S : \A y \in S \ {x} : KeyLess(x, y)
       IN <<m>> \o SortKeys(S \ {m})

\* a finite set of strings, ascending
RECURSIVE SortStrs(_)
SortStrs(S) ==
  IF S = {} THEN <<>>
  ELSE LET m == CHOOSE x \in S : \A y \in S \ {x} : Rank(x) < Rank(y)
       IN <<m>> \o SortStrs(S \ {m})

----------------------------------------------------------------------------
(* Tables: [cols |-> labels, rows |-> rows of cells]; a pivoted table has   *)
(* an index of countries as well.                                           *)

Range(s) == {s[i] : i \in 1..Len(s)}
Min(a, b) == IF a < b THEN a ELSE b
Max(a, b) == IF a < b THEN b ELSE a

\* the positions of the columns labelled c
Positions(t, c) == {j \in 1..Len(t.cols) : t.cols[j] = c}
Col(t, c) == CHOOSE j \in Positions(t, c) : TRUE

\* the table of the columns at positions idx (a sequence), in that order
TakeCols(t, idx) ==
  [cols |-> [j \in 1..Len(idx) |-> t.cols[idx[j]]],
   rows |-> [r \in 1..Len(t.rows) |-> [j \in 1..Len(idx) |-> t.rows[r][idx[j]]]]]

\* the positions lo..hi as a sequence
Span(lo, hi) == [j \in 1..(IF hi < lo THEN 0 ELSE hi - lo + 1) |-> lo + j - 1]

----------------------------------------------------------------------------
(* The stage functions *)

\* format_columns: the three renames of every label
format_columns(df) ==
  [df EXCEPT !.cols = [j \in 1..Len(df.cols) |-> FormatLabel(df.cols[j])]]

\* the labels clean_data drops
DroppedLabels == {INDICATOR_CODE, COUNTRY_CODE, UNNAMED_63}

\* df.drop(labels, axis=1) raises KeyError when a label is no column
DropRaises(df, labels) == \E c \in labels : Positions(df, c) = {}

DropCols(df, labels) ==
  TakeCols(df, SelectSeq(Span(1, Len(df.cols)), LAMBDA j : df.cols[j] \notin labels))

\* df.iloc[:, :k]
ILocFirst(df, k) == TakeCols(df, Span(1, Min(k, Len(df.cols))))

\* df.iloc[:, -years:]: the slice starts years before the end, and at the first
\* column when there are fewer (and -0 is 0)
ILocLast(df, years) ==
  TakeCols(df, Span(IF years = 0 THEN 1 ELSE Max(Len(df.cols) - years, 0) + 1,
                    Len(df.cols)))

\* pd.concat([a, b], axis=1) of two tables with the same rows
ConcatCols(a, b) ==
  [cols |-> a.cols \o b.cols,
   rows |-> [r \in 1..Len(a.rows) |-> a.rows[r] \o b.rows[r]]]

\* df.dropna(subset=labels, axis=0, how="all"): a row goes when every cell under
\* the subset's labels is null
DropNaAll(df, labels) ==
  [df EXCEPT !.rows = SelectSeq(df.rows, LAMBDA row :
     \E j \in 1..Len(df.cols) : df.cols[j] \in labels /\ NotNull(row[j]))]

\* df.replace({old: new}) over every cell
ReplaceCells(df, old, new) ==
  [df EXCEPT !.rows =
     [r \in 1..Len(df.rows) |->
        [j \in 1..Len(df.cols) |->
           IF df.rows[r][j] = Str(old) THEN Str(new) ELSE df.rows[r][j]]]]

clean_data(df, years) ==
  LET dropped == DropCols(df, DroppedLabels)
      kept == ConcatCols(ILocFirst(dropped, 2), ILocLast(dropped, years))
      subset == {kept.cols[j] : j \in 3..Len(kept.cols)}
  IN ReplaceCells(DropNaAll(kept, subset), "United States", "US")

\* keep_relevant_countries: the rows whose COUNTRY_NAME is one of corona_df.COUNTRY
keep_relevant_countries(df, corona_df) ==
  [df EXCEPT !.rows = SelectSeq(df.rows, LAMBDA row :
     row[Col(df, COUNTRY_NAME)] \in Range(corona_df))]

\* the value columns of melt: every column that is no id column, in order
ValueVars(df) ==
  SelectSeq(Span(1, Len(df.cols)),
            LAMBDA j : df.cols[j] \notin {COUNTRY_NAME, INDICATOR_NAME})

\* astype("datetime64[Y]") raises when a label is no year
YearRaises(df) ==
  \E i \in 1..Len(ValueVars(df)) : ~IsYearLabel(df.cols[ValueVars(df)[i]])

\* reindex_by_country_indicator: melt writes the rows of the first value column,
\* then those of the second, ...; YEAR is the parsed label
reindex_by_country_indicator(df) ==
  LET vv == ValueVars(df)
      n == Len(df.rows)
      cn == Col(df, COUNTRY_NAME)
      ind == Col(df, INDICATOR_NAME)
  IN [cols |-> <<COUNTRY_NAME, INDICATOR_NAME, YEAR, VALUE>>,
      rows |-> [i \in 1..(n * Len(vv)) |->
                  LET r == ((i - 1) % n) + 1
                      j == vv[((i - 1) \div n) + 1]
                  IN <<df.rows[r][cn], df.rows[r][ind],
                       Year(DigitsValue(df.cols[j])), df.rows[r][j]>>]]

\* the (country, indicator) key of a long-form row
KeyOf(row) == <<row[1].s, row[2].s>>
GroupKeys(df) == {KeyOf(df.rows[i]) : i \in 1..Len(df.rows)}
\* the rows of one group, in the table's order
GroupRows(df, key) ==
  SelectSeq(Span(1, Len(df.rows)), LAMBDA i : KeyOf(df.rows[i]) = key)
\* one column of one group
GroupSeries(df, key, c) ==
  LET idx == GroupRows(df, key)
  IN [i \in 1..Len(idx) |-> df.rows[idx[i]][Col(df, c)]]

\* s.interpolate(method="linear"): the points are equally spaced; a null between
\* two values lies on their line, a null after the last value takes that value
\* (limit_direction is "forward"), a null before the first value stays
interpolate(s) ==
  [p \in 1..Len(s) |->
     IF NotNull(s[p]) THEN s[p]
     ELSE LET before == {i \in 1..(p - 1) : NotNull(s[i])}
              after == {i \in (p + 1)..Len(s) : NotNull(s[i])}
          IN IF before = {} THEN NaN
             ELSE LET i == CHOOSE x \in before : \A y \in before : y <= x
                  IN IF after = {} THEN s[i]
                     ELSE LET j == CHOOSE x \in after : \A y \in after : x <= y
                          IN QAdd(s[i], QScale(QSub(s[j], s[i]), p - i, j - i))]

\* interpolate_values: VALUE of every row becomes the interpolated value of its
\* group at its place in the group
interpolate_values(df) ==
  [df EXCEPT !.rows =
     [r \in 1..Len(df.rows) |->
        LET idx == GroupRows(df, KeyOf(df.rows[r]))
            s == GroupSeries(df, KeyOf(df.rows[r]), VALUE)
            p == CHOOSE i \in 1..Len(idx) : idx[i] = r
        IN [df.rows[r] EXCEPT ![Col(df, VALUE)] = interpolate(s)[p]]]]

\* get_latest_value: series[series.notnull()].values[~0]; IndexError when empty
LatestRaises(series) == DropNull(series) = <<>>
get_latest_value(series) == LET v == DropNull(series) IN v[Len(v)]

\* the positions, from 0, of the finite values of a series
FinitePositions(series) == {i - 1 : i \in {j \in 1..Len(series) : IsFinite(series[j])}}
LastOf(S) == CHOOSE x \in S : \A y \in S : y <= x
FirstOf(S) == CHOOSE x \in S : \A y \in S : x <= y

\* n = x[~0]: the position of the last finite value
Periods(series) == LastOf(FinitePositions(series))

\* assert n > 0
GrowthRaises(series) ==
  FinitePositions(series) # {} /\ ~(Periods(series) > 0)

calculate_growth_rate(series) ==
  LET x == FinitePositions(series)
  IN IF x = {} THEN NaN
     ELSE GrowthOf(QDiv(series[LastOf(x) + 1], series[FirstOf(x) + 1]),
                   Periods(series))

\* the exception summarize ends with, "" when it returns: agg computes CURRENT_YEAR,
\* CURRENT_VALUE, AVERAGE_VALUE and GROWTH_RATE in turn, each over every group
SummarizeRaises(df) ==
  IF \E key \in GroupKeys(df) : LatestRaises(GroupSeries(df, key, YEAR))
    THEN "IndexError"
  ELSE IF \E key \in GroupKeys(df) : LatestRaises(GroupSeries(df, key, VALUE))
    THEN "IndexError"
  ELSE IF \E key \in GroupKeys(df) : GrowthRaises(GroupSeries(df, key, VALUE))
    THEN "AssertionError"
  ELSE ""

\* summarize: one row per group, the groups in the order of their keys
summarize(df) ==
  LET keys == SortKeys(GroupKeys(df))
  IN [cols |-> <<COUNTRY_NAME, INDICATOR_NAME, CURRENT_YEAR, CURRENT_VALUE,
                 AVERAGE_VALUE, GROWTH_RATE>>,
      rows |-> [g \in 1..Len(keys) |->
                  LET value == GroupSeries(df, keys[g], VALUE)
                  IN <<Str(keys[g][1]), Str(keys[g][2]),
                       get_latest_value(GroupSeries(df, keys[g], YEAR)),
                       get_latest_value(value),
                       Mean(value),
                       calculate_growth_rate(value)>>]]

\* the metrics pivot_by_indicator spreads, in the order of its values argument
Metrics == <<GROWTH_RATE, CURRENT_VALUE, AVERAGE_VALUE>>

\* pivot_by_indicator: a row per country, a column per (metric, indicator), both
\* ascending; a (country, indicator) pair with no row gives NaN
pivot_by_indicator(df) ==
  LET index == SortStrs({df.rows[i][1].s : i \in 1..Len(df.rows)})
      inds == SortStrs({df.rows[i][2].s : i \in 1..Len(df.rows)})
      cols == [j \in 1..(Len(Metrics) * Len(inds)) |->
                 <<Metrics[((j - 1) \div Len(inds)) + 1],
                   inds[((j - 1) % Len(inds)) + 1]>>]
  IN [index |-> index,
      cols |-> cols,
      rows |-> [r \in 1..Len(index) |->
                  [j \in 1..Len(cols) |->
                     LET hit == {i \in 1..Len(df.rows) :
                                   KeyOf(df.rows[i]) = <<index[r], cols[j][2]>>}
                     IN IF hit = {} THEN NaN
                        ELSE df.rows[CHOOSE i \in hit : TRUE][Col(df, cols[j][1])]]]]

\* the cells of column j, top to bottom
Column(df, j) == [r \in 1..Len(df.rows) |-> df.rows[r][j]]

\* a column mean that divides by the number of rows, null cells included
ColumnMeanOverAllRows(df, j) ==
  LET p == DropNull(Column(df, j))
  IN IF p # <<>> /\ \A i \in 1..Len(p) : IsExact(p[i])
     THEN QScale(QSum(p), 1, Len(df.rows))
     ELSE Mean(p)

\* df.mean(): the mean of every column over its cells that are not null
ColumnMean(df, j) == Mean(Column(df, j))

\* fill_missing_indicators: df.fillna(df.mean())
fill_missing_indicators(df) ==
  [df EXCEPT !.rows =
     [r \in 1..Len(df.rows) |->
        [j \in 1..Len(df.cols) |->
           IF IsNull(df.rows[r][j]) THEN ColumnMean(df, j) ELSE df.rows[r][j]]]]

----------------------------------------------------------------------------
(* Input tables *)

\* the VALUEs of a cell of a long-form table: null, zero and two positive numbers
Values == {NaN, Num(0), Num(1), Num(4)}
\* the VALUEs of a cell of the indicator file
RawValues == {NaN, Num(0), Num(1)}

\* the rows of an input table: country, country code, indicator, indicator code
Keys ==
  << <<"United States", "USA", "Population, total", "SP.POP.TOTL">>,
     <<"Italy", "ITA", "GDP (current US$)", "NY.GDP.MKTP.CD">>,
     <<"Spain", "ESP", "Population, total", "SP.POP.TOTL">>,
     <<"Atlantis", "ATL", "Population, total", "SP.POP.TOTL">> >>

\* the COUNTRY column of the case-count table
Corona == <<Str("US"), Str("Italy"), Str("Spain")>>

\* the characters of a natural number
RECURSIVE DigitString(_)
DigitString(n) ==
  IF n < 10 THEN <<DigitChars[n + 1]>>
  ELSE DigitString(n \div 10) \o <<DigitChars[(n % 10) + 1]>>

YearLabels(K) == [i \in 1..K |-> DigitString(2000 + i)]

\* the shapes of an input table: g rows of K year columns
Shapes == {s \in (1..Len(Keys)) \X (1..MaxCells) : s[1] * s[2] <= MaxCells}

\* the indicator file as read: the four leading columns, the year columns and,
\* when the file has it, the empty trailing column
RawTable(g, K, vals, trailing) ==
  [cols |-> <<RawCountryName, RawCountryCode, RawIndicatorName, RawIndicatorCode>>
            \o YearLabels(K) \o (IF trailing THEN <<RawUnnamed>> ELSE <<>>),
   rows |-> [r \in 1..g |->
               <<Str(Keys[r][1]), Str(Keys[r][2]), Str(Keys[r][3]), Str(Keys[r][4])>>
               \o vals[r] \o (IF trailing THEN <<NaN>> ELSE <<>>)]]

\* a wide table of the two identity columns and K year columns
WideTable(g, K, vals) ==
  [cols |-> <<COUNTRY_NAME, INDICATOR_NAME>> \o YearLabels(K),
   rows |-> [r \in 1..g |->
               <<Str(IF Keys[r][1] = "United States" THEN "US" ELSE Keys[r][1]),
                 Str(Keys[r][3])>> \o vals[r]]]

NoTable == [cols |-> <<>>, rows |-> <<>>]

----------------------------------------------------------------------------
(* The state: a caller holds a table and calls the stage functions on it.   *)

VARIABLES
  stage,      \* which table the caller holds: the stage that made it, or "failed"
  df,         \* the table the last call returned
  arg,        \* the table the caller passed to the last call, as it is after the call
  argBefore,  \* that table as it was before the call
  fresh,      \* whether the last call returned a table other than its argument
  err,        \* the exception the last call raised, or ""
  trace,      \* the functions called so far
  years       \* the years argument of clean_data, 0 before the call

vars == <<stage, df, arg, argBefore, fresh, err, trace, years>>

InitRaw ==
  \E s \in Shapes : \E vals \in [1..s[1] -> [1..s[2] -> RawValues]] :
  \E trailing \in BOOLEAN :
    /\ stage = "raw"
    /\ df = RawTable(s[1], s[2], vals, trailing)

InitLong ==
  \E s \in Shapes : \E vals \in [1..s[1] -> [1..s[2] -> Values]] :
    /\ stage = "long"
    /\ df = reindex_by_country_indicator(WideTable(s[1], s[2], vals))

Init ==
  /\ InitRaw \/ InitLong
  /\ arg = NoTable
  /\ argBefore = NoTable
  /\ fresh = TRUE
  /\ err = ""
  /\ trace = <<>>
  /\ years = 0

\* a call of function fn that returns the new table out
Returns(fn, out, next) ==
  /\ stage' = next
  /\ df' = out
  /\ arg' = df
  /\ argBefore' = df
  /\ fresh' = TRUE
  /\ err' = ""
  /\ trace' = Append(trace, fn)

\* a call of function fn that raises exception e
Raises(fn, e) ==
  /\ stage' = "failed"
  /\ df' = df
  /\ arg' = df
  /\ argBefore' = df
  /\ fresh' = TRUE
  /\ err' = e
  /\ trace' = Append(trace, fn)

FormatColumns ==
  /\ stage = "raw"
  /\ Returns("format_columns", format_columns(df), "formatted")
  /\ UNCHANGED years

\* how many columns of a table are year columns
YearColumns(t) == Cardinality({j \in 1..Len(t.cols) : IsYearLabel(t.cols[j])})

CleanData ==
  /\ stage = "formatted"
  /\ \E n \in 1..(YearColumns(df) + 2) :
       /\ years' = n
       /\ IF DropRaises(df, DroppedLabels)
          THEN Raises("clean_data", "KeyError")
          ELSE Returns("clean_data", clean_data(df, n), "cleaned")

\* the labels of a table are distinct (the later stages pick columns by label)
DistinctLabels(t) == Cardinality(Range(t.cols)) = Len(t.cols)

KeepRelevantCountries ==
  /\ stage = "cleaned"
  /\ DistinctLabels(df)
  /\ Returns("keep_relevant_countries", keep_relevant_countries(df, Corona), "filtered")
  /\ UNCHANGED years

ReindexByCountryIndicator ==
  /\ stage = "filtered"
  /\ IF YearRaises(df)
     THEN Raises("reindex_by_country_indicator", "ValueError")
     ELSE Returns("reindex_by_country_indicator",
                  reindex_by_country_indicator(df), "long")
  /\ UNCHANGED years

\* interpolate_values assigns the VALUE column of its argument and returns the
\* argument itself
InterpolateValues ==
  /\ stage = "long"
  /\ stage' = "interpolated"
  /\ df' = interpolate_values(df)
  /\ arg' = df'
  /\ argBefore' = df
  /\ fresh' = FALSE
  /\ err' = ""
  /\ trace' = Append(trace, "interpolate_values")
  /\ UNCHANGED years

Summarize ==
  /\ stage \in {"long", "interpolated"}
  /\ IF SummarizeRaises(df) # ""
     THEN Raises("summarize", SummarizeRaises(df))
     ELSE Returns("summarize", summarize(df), "summarized")
  /\ UNCHANGED years

PivotByIndicator ==
  /\ stage = "summarized"
  /\ Returns("pivot_by_indicator", pivot_by_indicator(df), "pivoted")
  /\ UNCHANGED years

FillMissingIndicators ==
  /\ stage = "pivoted"
  /\ Returns("fill_missing_indicators", fill_missing_indicators(df), "filled")
  /\ UNCHANGED years

Next ==
  \/ FormatColumns
  \/ CleanData
  \/ KeepRelevantCountries
  \/ ReindexByCountryIndicator
  \/ InterpolateValues
  \/ Summarize
  \/ PivotByIndicator
  \/ FillMissingIndicators

Spec == Init /\ [][Next]_vars

----------------------------------------------------------------------------
(* Properties *)

\* the function called last, "" before the first call
LastCall == IF trace = <<>> THEN "" ELSE trace[Len(trace)]

\* the stage sequence of the whole pipeline
Pipeline ==
  <<"format_columns", "clean_data", "keep_relevant_countries",
    "reindex_by_country_indicator", "interpolate_values", "summarize",
    "pivot_by_indicator", "fill_missing_indicators">>

\* the whole pipeline ran to completion on an indicator file
Completed == stage = "filled" /\ trace = Pipeline

\* the places of a series that hold a value
Observed(s) == {i \in 1..Len(s) : NotNull(s[i])}

\* C1: interpolate_values leaves every VALUE that was not null unchanged, fills
\* only nulls strictly between two observations of the group, and leaves every
\* leading null and every trailing null of a group null.
C1_InterpolationKeepsBoundaryNulls ==
  LastCall = "interpolate_values" =>
    \A key \in GroupKeys(argBefore) :
      LET before == GroupSeries(argBefore, key, VALUE)
          after == GroupSeries(df, key, VALUE)
      IN \A p \in 1..Len(before) :
           /\ NotNull(before[p]) => after[p] = before[p]
           /\ (IsNull(before[p]) /\ NotNull(after[p])) =>
                /\ \E i \in Observed(before) : i < p
                /\ \E j \in Observed(before) : p < j
           /\ (IsNull(before[p]) /\ ~\E i \in Observed(before) : i < p) =>
                IsNull(after[p])
           /\ (IsNull(before[p]) /\ ~\E j \in Observed(before) : p < j) =>
                IsNull(after[p])

\* the groups of a long-form table with exactly one finite VALUE
SinglePointGroups(t) ==
  {key \in GroupKeys(t) :
     Cardinality(FinitePositions(GroupSeries(t, key, VALUE))) = 1}

\* the groups of a long-form table with no VALUE at all
EmptyGroups(t) ==
  {key \in GroupKeys(t) : Observed(GroupSeries(t, key, VALUE)) = {}}

\* C2: when a group has exactly one finite VALUE, at whatever position, summarize
\* aborts on the zero-elapsed-period assertion and returns no growth rate for it
\* (no group being without any VALUE, which aborts earlier).
C2_SinglePointGroupAborts ==
  (/\ LastCall = "summarize"
   /\ SinglePointGroups(argBefore) # {}
   /\ EmptyGroups(argBefore) = {}) =>
    (stage = "failed" /\ err = "AssertionError")

\* the positions elapsed between the first and the last finite value of a series
Elapsed(s) == LastOf(FinitePositions(s)) - FirstOf(FinitePositions(s))

\* C3: for every group with at least two finite VALUEs, the exponent denominator n
\* of the growth rate equals the number of positions elapsed since the group's
\* first finite observation, also when the group starts with nulls, and the
\* GROWTH_RATE summarize returns is (y_last / y_first)^(1/n) - 1 for that n.
C3_PeriodsAreElapsedSinceFirst ==
  (LastCall = "summarize" /\ stage = "summarized") =>
    \A g \in 1..Len(df.rows) :
      LET s == GroupSeries(argBefore, KeyOf(df.rows[g]), VALUE)
          x == FinitePositions(s)
      IN Cardinality(x) >= 2 =>
           /\ Periods(s) = Elapsed(s)
           /\ df.rows[g][Col(df, GROWTH_RATE)]
                = GrowthOf(QDiv(s[LastOf(x) + 1], s[FirstOf(x) + 1]), Elapsed(s))

\* C4: after clean_data, keep_relevant_countries and reindex_by_country_indicator
\* every row of the long-form table has an INDICATOR_NAME of the whitelist.
C4_LongRowsAreWhitelisted ==
  (stage = "long" /\ LastCall = "reindex_by_country_indicator") =>
    \A i \in 1..Len(df.rows) : df.rows[i][Col(df, INDICATOR_NAME)].s \in indicators

\* C5: for every group with a VALUE, CURRENT_YEAR and CURRENT_VALUE are the YEAR
\* and the VALUE of the group's last row whose VALUE is not null.
C5_CurrentYearIsYearOfCurrentValue ==
  (LastCall = "summarize" /\ stage = "summarized") =>
    \A g \in 1..Len(df.rows) :
      LET key == KeyOf(df.rows[g])
          value == GroupSeries(argBefore, key, VALUE)
          year == GroupSeries(argBefore, key, YEAR)
          last == LastOf(Observed(value))
      IN Observed(value) # {} =>
           /\ df.rows[g][Col(df, CURRENT_VALUE)] = value[last]
           /\ df.rows[g][Col(df, CURRENT_YEAR)] = year[last]

\* the cells of column j of a table in the rows other than r, top to bottom
OtherCells(t, r, j) ==
  LET rest == SelectSeq(Span(1, Len(t.rows)), LAMBDA i : i # r)
  IN [i \in 1..Len(rest) |-> t.rows[rest[i]][j]]

\* cell c is the mean of the cells of s that are not null: the sum of those cells
\* is their number times c; null when there is none
IsMeanOf(c, s) ==
  LET p == DropNull(s)
  IN IF p = <<>> THEN IsNull(c)
     ELSE IF \A i \in 1..Len(p) : IsExact(p[i])
       THEN IsExact(c) /\ NotNull(c) /\ QScale(c, Len(p), 1) = QSum(p)
     ELSE c = Mean(p)

\* C6: fill_missing_indicators gives every missing cell of a (metric, indicator)
\* column the mean of the cells of the other countries that are not missing, and
\* leaves every cell that was present unchanged.
C6_FillIsMeanOfOthers ==
  (LastCall = "fill_missing_indicators" /\ stage = "filled") =>
    /\ df.cols = argBefore.cols /\ df.index = argBefore.index
    /\ \A r \in 1..Len(argBefore.rows) : \A j \in 1..Len(argBefore.cols) :
         IF NotNull(argBefore.rows[r][j])
         THEN df.rows[r][j] = argBefore.rows[r][j]
         ELSE IsMeanOf(df.rows[r][j], OtherCells(argBefore, r, j))

\* C6 happens: a missing cell was filled with the mean of two different cells
C6_Witness ==
  /\ LastCall = "fill_missing_indicators" /\ stage = "filled"
  /\ \E r \in 1..Len(argBefore.rows) : \E j \in 1..Len(argBefore.cols) :
       /\ IsNull(argBefore.rows[r][j])
       /\ NotNull(df.rows[r][j])
       /\ Cardinality(Range(DropNull(OtherCells(argBefore, r, j)))) >= 2

\* C7 as stated: after the whole pipeline no cell of the pivoted table is null.
C7_NoNullAfterPipeline ==
  Completed =>
    \A r \in 1..Len(df.rows) : \A j \in 1..Len(df.cols) : NotNull(df.rows[r][j])

\* C7 as amended: after the whole pipeline a null cell is left only in a
\* GROWTH_RATE column, and only when no country has a growth rate for that
\* indicator that is a number (the column was null in every row before the fill).
C7_NullOnlyWhereNoGrowthRate ==
  Completed =>
    \A r \in 1..Len(df.rows) : \A j \in 1..Len(df.cols) :
      IsNull(df.rows[r][j]) =>
        /\ df.cols[j][1] = GROWTH_RATE
        /\ \A q \in 1..Len(argBefore.rows) : IsNull(argBefore.rows[q][j])

\* C7 happens: the pipeline completed and the fill gave a missing cell a value
C7_Witness ==
  /\ Completed
  /\ \E r \in 1..Len(df.rows) : \E j \in 1..Len(df.cols) :
       IsNull(argBefore.rows[r][j]) /\ NotNull(df.rows[r][j])

\* C8: no stage changes the table it receives: after the call the caller's table
\* has the cells it had before (where this fails the result is no new table
\* either: fresh is FALSE).
C8_StagesDoNotMutate ==
  trace # <<>> => arg = argBefore

\* C9: when a group has no VALUE at all, summarize does not abort: it returns a
\* row for that group with null CURRENT_YEAR and CURRENT_VALUE, and a row for
\* every other group (no group failing the zero-elapsed-period assertion).
C9_EmptyGroupIsSummarized ==
  (/\ LastCall = "summarize"
   /\ EmptyGroups(argBefore) # {}
   /\ \A key \in GroupKeys(argBefore) :
        ~GrowthRaises(GroupSeries(argBefore, key, VALUE))) =>
    /\ stage = "summarized"
    /\ \A key \in GroupKeys(argBefore) : \E g \in 1..Len(df.rows) :
         /\ KeyOf(df.rows[g]) = key
         /\ key \in EmptyGroups(argBefore) =>
              /\ IsNull(df.rows[g][Col(df, CURRENT_YEAR)])
              /\ IsNull(df.rows[g][Col(df, CURRENT_VALUE)])

\* the year labels of a table, in column order
YearLabelsOf(t) ==
  LET idx == SelectSeq(Span(1, Len(t.cols)), LAMBDA j : IsYearLabel(t.cols[j]))
  IN [i \in 1..Len(idx) |-> t.cols[idx[i]]]

\* C10: for every window N >= 1, also N > K, the columns of clean_data's result
\* are the two identity columns, each once, and then the last min(N, K) year
\* columns in their order.
C10_CleanDataColumns ==
  (LastCall = "clean_data" /\ stage = "cleaned") =>
    LET labels == YearLabelsOf(argBefore)
        K == Len(labels)
    IN df.cols = <<COUNTRY_NAME, INDICATOR_NAME>>
                   \o SubSeq(labels, K - Min(years, K) + 1, K)

====
